---------------------------- MODULE Spec2Model ----------------------------
(* Model of wsh.py: one render cycle of the betting-odds dashboard (main)  *)
(* and the pure helpers it is built from.  Numbers are fixed-point, in     *)
(* thousandths (6.0 is 6000), so that rounding to two decimals is visible. *)
EXTENDS Integers, Sequences, FiniteSets, TLC

VARIABLES
    file,            \* all_matches.xlsx on disk: exists, columns, rows
    pc,              \* position of main
    error,           \* the exception that ended the cycle, or "none"
    ui,              \* the UI elements emitted so far, in order
    heap,            \* the DataFrame objects of the cycle, by object id
    filtered_ref,    \* the object the name filtered_data is bound to
    leagues,         \* options of the league selectbox
    selected_league, \* value the selectbox returned
    stats,           \* dictionary returned by get_statistics
    styled,          \* Styler returned by style_dataframe: one style per cell
    figs,            \* figures returned by create_visualizations
    csv,             \* bytes handed to the download button
    h_in,            \* filter harness: the frame under test
    h_pred,          \* filter harness: the predicate (league, min_xg, min_bookings)
    h_once,          \* filter harness: result of one application
    h_twice          \* filter harness: result of applying it to h_once again

vars == <<file, pc, error, ui, heap, filtered_ref, leagues, selected_league,
          stats, styled, figs, csv, h_in, h_pred, h_once, h_twice>>

mainVars == <<file, pc, error, ui, heap, filtered_ref, leagues, selected_league,
              stats, styled, figs, csv>>

harnessVars == <<h_in, h_pred, h_once, h_twice>>

-----------------------------------------------------------------------------
(* Bounds and input domains *)

MaxRows == 3

Columns == {"fixture", "league", "match_xg", "ex_bookings", "ex_corners"}

ColumnOrder == <<"fixture", "league", "match_xg", "ex_bookings", "ex_corners">>

NumericColumns == {"match_xg", "ex_bookings", "ex_corners"}

\* Match records a spreadsheet can hold.  rA and rB are the two records of
\* the specification's worked example; rC ties rA on match_xg; rD is in a
\* league that is itself named "All" and carries values with three decimals;
\* rF sits on the two colour thresholds.
rA == [fixture |-> "A", league |-> "X", match_xg |-> 6000, ex_bookings |-> 4000, ex_corners |-> 9000]
rB == [fixture |-> "B", league |-> "Y", match_xg |-> 2000, ex_bookings |-> 1000, ex_corners |-> 3000]
rC == [fixture |-> "C", league |-> "X", match_xg |-> 6000, ex_bookings |-> 1000, ex_corners |-> 3000]
rD == [fixture |-> "D", league |-> "All", match_xg |-> 2346, ex_bookings |-> 4000, ex_corners |-> 9005]
rE == [fixture |-> "E", league |-> "Y", match_xg |-> 4000, ex_bookings |-> 1004, ex_corners |-> 3000]
rF == [fixture |-> "F", league |-> "X", match_xg |-> 5000, ex_bookings |-> 3000, ex_corners |-> 5000]

Records == {rA, rB, rC, rD, rE, rF}

Tables == UNION {[1..n -> Records] : n \in 0..MaxRows}

\* Thresholds a filter specification can carry.
MinXgVals == {0, 2346, 3000, 6000}
MinBookingsVals == {0, 1004, 4000}

NoFrame == [columns |-> {}, rows |-> <<>>, none |-> TRUE]

NoStats == [none |-> TRUE]

NoLeague == "<no league>"

-----------------------------------------------------------------------------
(* Sequence helpers *)

RECURSIVE SelectRows(_, _)
\* boolean-mask indexing df[mask]: the rows whose mask entry is true, in
\* order, each keeping its row label
SelectRows(rows, mask) ==
    IF rows = <<>> THEN <<>>
    ELSE IF Head(mask) THEN <<Head(rows)>> \o SelectRows(Tail(rows), Tail(mask))
         ELSE SelectRows(Tail(rows), Tail(mask))

RECURSIVE SumCol(_, _)
SumCol(rows, c) ==
    IF rows = <<>> THEN 0 ELSE Head(rows).cells[c] + SumCol(Tail(rows), c)

ColValues(rows, c) == {rows[i].cells[c] : i \in 1..Len(rows)}

SetMax(S) == CHOOSE m \in S : \A x \in S : x <= m

SetMin(S) == CHOOSE m \in S : \A x \in S : m <= x

RECURSIVE InsertDesc(_, _, _)
\* stable insertion of row r into rows already sorted descending on column c
InsertDesc(r, rows, c) ==
    IF rows = <<>> THEN <<r>>
    ELSE IF Head(rows).cells[c] >= r.cells[c]
         THEN <<Head(rows)>> \o InsertDesc(r, Tail(rows), c)
         ELSE <<r>> \o rows

RECURSIVE SortDesc(_, _)
\* sort_values(c, ascending=False): a new, sorted row sequence
SortDesc(rows, c) ==
    IF rows = <<>> THEN <<>>
    ELSE InsertDesc(rows[Len(rows)], SortDesc(SubSeq(rows, 1, Len(rows) - 1), c), c)

-----------------------------------------------------------------------------
(* DataFrames: columns, and rows that carry their row label *)

Frame(cols, rows) == [columns |-> cols, rows |-> rows]

\* pd.read_excel: one row per spreadsheet row, labelled 0..n-1 (RangeIndex)
read_excel(f) ==
    Frame(f.columns,
          [i \in 1..Len(f.rows) |-> [label |-> i - 1, cells |-> f.rows[i]]])

load_data(f) == read_excel(f)

\* df[[c1, c2, ...]].copy(): a new frame holding only the columns cols
Project(df, cols) ==
    Frame(cols,
          [i \in 1..Len(df.rows) |->
              [label |-> df.rows[i].label,
               cells |-> [c \in cols |-> df.rows[i].cells[c]]]])

\* Series.mean() of a non-empty column, kept exact as a fraction
mean(df, c) == [num |-> SumCol(df.rows, c), den |-> Len(df.rows)]

\* Series.max() / Series.min() of a non-empty column
max(df, c) == SetMax(ColValues(df.rows, c))

min(df, c) == SetMin(ColValues(df.rows, c))

\* round(x, 2) of the value num/den thousandths: the nearest multiple of ten
\* thousandths.  An exact tie (x.xx5) is decided by the binary representation
\* of the float, so both neighbours are outcomes.
Round2(num, den) ==
    LET k == num \div (10 * den)
        r == num % (10 * den)
    IN  IF 2 * r < 10 * den THEN {10 * k}
        ELSE IF 2 * r > 10 * den THEN {10 * (k + 1)}
        ELSE {10 * k, 10 * (k + 1)}

\* f"{v:.2f}" of a value already rounded to two decimals
Format2f(v) == CHOOSE d \in Round2(v, 1) : TRUE

\* Series.idxmax(): the row label of the first occurrence of the maximum
idxmax(df, c) ==
    LET m == max(df, c)
        i == CHOOSE j \in 1..Len(df.rows) :
                /\ df.rows[j].cells[c] = m
                /\ \A k \in 1..(j - 1) : df.rows[k].cells[c] # m
    IN  df.rows[i].label

\* df.loc[label, c]: the cell of the row labelled label (labels are unique)
loc(df, label, c) ==
    LET i == CHOOSE j \in 1..Len(df.rows) : df.rows[j].label = label
    IN  df.rows[i].cells[c]

-----------------------------------------------------------------------------
(* style_dataframe and its cell classifier *)

Style == "background-color: #7A1CAC; color: white"

color_odds(val) ==
    IF val > 5000 THEN Style
    ELSE IF val > 3000 THEN Style
    ELSE Style

DisplayColumns == {"fixture", "match_xg", "ex_bookings", "ex_corners"}

\* a plausible slip: dropping the league column of the frame passed in
\* instead of working on a copy
style_dataframe_inplace(h, ref) ==
    [h EXCEPT ![ref] = Project(h[ref], DisplayColumns),
              !["display_df"] = Project(h[ref], DisplayColumns)]

\* line 14: display_df is a copy; the frame passed in is left alone
style_dataframe(h, ref) ==
    [h EXCEPT !["display_df"] = Project(h[ref], DisplayColumns)]

\* line 25: the Styler, one style per cell of the three numeric columns
applymap(display_df) ==
    [i \in 1..Len(display_df.rows) |->
        [c \in NumericColumns |-> color_odds(display_df.rows[i].cells[c])]]

-----------------------------------------------------------------------------
(* get_statistics *)

\* the exception get_statistics raises on df, or "none"
get_statistics_error(df) ==
    IF NumericColumns \ df.columns # {} THEN "KeyError"
    ELSE IF df.rows = <<>> THEN "ValueError"
    ELSE IF "fixture" \notin df.columns THEN "KeyError"
    ELSE "none"

\* the dictionaries get_statistics can return on a frame it does not fail on
get_statistics(df) ==
    LET mx == mean(df, "match_xg")
        mb == mean(df, "ex_bookings")
        mc == mean(df, "ex_corners")
    IN  { [avg_match_xg |-> a, avg_bookings |-> b, avg_corners |-> c,
           highest_xg_match |-> loc(df, idxmax(df, "match_xg"), "fixture"),
           highest_xg_value |-> v] :
            a \in Round2(mx.num, mx.den), b \in Round2(mb.num, mb.den),
            c \in Round2(mc.num, mc.den), v \in Round2(max(df, "match_xg"), 1) }

-----------------------------------------------------------------------------
(* The filters *)

\* Python's string order on the league names of Records
LeagueOrder == <<"All", "X", "Y">>

\* a plausible slip: a hard-coded option list instead of the table's leagues
league_options_fixed(df) == <<"All">> \o LeagueOrder

\* line 138: ['All'] + sorted(data['league'].unique().tolist())
league_options(df) ==
    LET present(l) == l \in ColValues(df.rows, "league")
    IN  <<"All">> \o SelectSeq(LeagueOrder, present)

\* lines 149-153: the frame filtered_data is bound to
league_select(df, sel) ==
    IF sel # "All"
    THEN Frame(df.columns,
               SelectRows(df.rows,
                   [i \in 1..Len(df.rows) |-> df.rows[i].cells["league"] = sel]))
    ELSE df

\* a plausible slip: a threshold relative to the frame's own mean
threshold_filter_relative(df, min_xg, min_bookings) ==
    Frame(df.columns,
          SelectRows(df.rows,
              [i \in 1..Len(df.rows) |->
                  /\ df.rows[i].cells["match_xg"] * Len(df.rows) >= SumCol(df.rows, "match_xg")
                  /\ df.rows[i].cells["ex_bookings"] >= min_bookings]))

\* lines 52-55: data[(match_xg >= min_xg) & (ex_bookings >= min_bookings)]
threshold_filter(df, min_xg, min_bookings) ==
    Frame(df.columns,
          SelectRows(df.rows,
              [i \in 1..Len(df.rows) |->
                  /\ df.rows[i].cells["match_xg"] >= min_xg
                  /\ df.rows[i].cells["ex_bookings"] >= min_bookings]))

\* lines 42-50: the values a slider over column c can return: between the
\* column's minimum and maximum, in steps of 0.01 from the minimum.  On an
\* empty frame both bounds are NaN and the returned value is not determined
\* by this source: any candidate.
slider(df, c, candidates) ==
    IF df.rows = <<>> THEN candidates
    ELSE {v \in candidates \cup ColValues(df.rows, c) :
            /\ min(df, c) <= v
            /\ v <= max(df, c)
            /\ (v - min(df, c)) % 10 = 0}

\* lines 38-57: the frames add_search_filters can return, each with the
\* slider values that produced it
add_search_filters(df) ==
    { [min_xg |-> x, min_bookings |-> b, frame |-> threshold_filter(df, x, b)] :
        x \in slider(df, "match_xg", MinXgVals),
        b \in slider(df, "ex_bookings", MinBookingsVals) }

-----------------------------------------------------------------------------
(* add_insights, create_visualizations, to_csv *)

\* lines 65-66 and 70-71: rows above the column mean, two columns of them,
\* sorted descending into a new frame
above_mean(df, c) ==
    Project(Frame(df.columns,
                  SortDesc(SelectRows(df.rows,
                      [i \in 1..Len(df.rows) |->
                          df.rows[i].cells[c] * Len(df.rows) > SumCol(df.rows, c)]),
                      c)),
            {"fixture", c})

add_insights(h, ref) ==
    [h EXCEPT !["high_xg"] = above_mean(h[ref], "match_xg"),
              !["high_cards"] = above_mean(h[ref], "ex_bookings")]

create_visualizations(df) ==
    [fig_xg |-> [i \in 1..Len(df.rows) |->
                    <<df.rows[i].cells["fixture"], df.rows[i].cells["match_xg"]>>],
     fig_scatter |-> [i \in 1..Len(df.rows) |->
                    <<df.rows[i].cells["ex_bookings"], df.rows[i].cells["ex_corners"],
                      df.rows[i].cells["fixture"], df.rows[i].cells["match_xg"]>>],
     fig_bookings |-> [i \in 1..Len(df.rows) |-> df.rows[i].cells["ex_bookings"]]]

\* to_csv(index=False): a header line and one line per row, row labels left out
to_csv(df) ==
    LET present(c) == c \in df.columns
        header == SelectSeq(ColumnOrder, present)
    IN  [header |-> header,
         lines |-> [i \in 1..Len(df.rows) |->
                      [k \in 1..Len(header) |-> df.rows[i].cells[header[k]]]]]

-----------------------------------------------------------------------------
(* The files the cycle can find on disk *)

Restrict(rec, cols) == [c \in cols |-> rec[c]]

\* a readable spreadsheet with the columns cols and the rows of table t
Sheet(cols, t) ==
    [exists |-> TRUE, columns |-> cols,
     rows |-> [i \in 1..Len(t) |-> Restrict(t[i], cols)]]

MissingFile == [exists |-> FALSE, columns |-> {}, rows |-> <<>>]

\* every table, complete or with one of the five columns absent, or no file
Files ==
    {MissingFile}
    \cup {Sheet(Columns, t) : t \in Tables}
    \cup {Sheet(Columns \ {c}, t) : c \in Columns, t \in Tables}

ObjIds == {"data", "filtered", "display_df", "high_xg", "high_cards"}

MainInit ==
    /\ file \in Files
    /\ pc = "start"
    /\ error = "none"
    /\ ui = <<>>
    /\ heap = [o \in ObjIds |-> NoFrame]
    /\ filtered_ref = "data"
    /\ leagues = <<>>
    /\ selected_league = NoLeague
    /\ stats = NoStats
    /\ styled = <<>>
    /\ figs = <<>>
    /\ csv = <<>>

HarnessIdle ==
    /\ h_in = NoFrame
    /\ h_pred = [kind |-> "none"]
    /\ h_once = NoFrame
    /\ h_twice = NoFrame

Init == MainInit /\ HarnessIdle

-----------------------------------------------------------------------------
(* main, one action per block of statements *)

Crash(e) ==
    /\ pc' = "crashed"
    /\ error' = e

\* lines 127-129
Title ==
    /\ pc = "start"
    /\ ui' = ui \o <<"page_config", "title">>
    /\ pc' = "load"
    /\ UNCHANGED <<file, error, heap, filtered_ref, leagues, selected_league,
                   stats, styled, figs, csv>>
    /\ UNCHANGED harnessVars

\* line 132
LoadData ==
    /\ pc = "load"
    /\ \/ /\ ~file.exists
          /\ Crash("FileNotFoundError")
          /\ UNCHANGED heap
       \/ /\ file.exists
          /\ heap' = [heap EXCEPT !["data"] = load_data(file)]
          /\ pc' = "leagues"
          /\ UNCHANGED error
    /\ UNCHANGED <<file, ui, filtered_ref, leagues, selected_league,
                   stats, styled, figs, csv>>
    /\ UNCHANGED harnessVars

\* lines 135-146
SelectLeague ==
    /\ pc = "leagues"
    /\ \/ /\ "league" \notin heap["data"].columns
          /\ ui' = ui \o <<"sidebar_header">>
          /\ Crash("KeyError")
          /\ UNCHANGED <<leagues, selected_league>>
       \/ /\ "league" \in heap["data"].columns
          /\ leagues' = league_options(heap["data"])
          /\ \E i \in 1..Len(leagues') : selected_league' = leagues'[i]
          /\ ui' = ui \o <<"sidebar_header", "league_selectbox">>
          /\ pc' = "filter"
          /\ UNCHANGED error
    /\ UNCHANGED <<file, heap, filtered_ref, stats, styled, figs, csv>>
    /\ UNCHANGED harnessVars

\* lines 149-154
FilterLeague ==
    /\ pc = "filter"
    /\ \/ /\ selected_league # "All"
          /\ heap' = [heap EXCEPT
                        !["filtered"] = league_select(heap["data"], selected_league)]
          /\ filtered_ref' = "filtered"
       \/ /\ selected_league = "All"
          /\ filtered_ref' = "data"
          /\ UNCHANGED heap
    /\ ui' = ui \o <<"sidebar_info">>
    /\ pc' = "sidebar"
    /\ UNCHANGED <<file, error, leagues, selected_league, stats, styled, figs, csv>>
    /\ UNCHANGED harnessVars

\* lines 157-162
Sidebar ==
    /\ pc = "sidebar"
    /\ ui' = ui \o <<"league_summary", "coming_soon">>
    /\ pc' = "stats"
    /\ UNCHANGED <<file, error, heap, filtered_ref, leagues, selected_league,
                   stats, styled, figs, csv>>
    /\ UNCHANGED harnessVars

\* line 165
GetStatistics ==
    /\ pc = "stats"
    /\ LET df == heap[filtered_ref]
       IN  \/ /\ get_statistics_error(df) # "none"
              /\ Crash(get_statistics_error(df))
              /\ UNCHANGED stats
           \/ /\ get_statistics_error(df) = "none"
              /\ stats' \in get_statistics(df)
              /\ pc' = "metrics"
              /\ UNCHANGED error
    /\ UNCHANGED <<file, ui, heap, filtered_ref, leagues, selected_league,
                   styled, figs, csv>>
    /\ UNCHANGED harnessVars

\* lines 166-175
Metrics ==
    /\ pc = "metrics"
    /\ ui' = ui \o <<<<"metric", Format2f(stats.avg_match_xg)>>,
                     <<"metric", Format2f(stats.avg_bookings)>>,
                     <<"metric", Format2f(stats.avg_corners)>>,
                     <<"info", stats.highest_xg_match, Format2f(stats.highest_xg_value)>>>>
    /\ pc' = "tab1"
    /\ UNCHANGED <<file, error, heap, filtered_ref, leagues, selected_league,
                   stats, styled, figs, csv>>
    /\ UNCHANGED harnessVars

\* lines 178-182
DataView ==
    /\ pc = "tab1"
    /\ heap' = style_dataframe(heap, filtered_ref)
    /\ styled' = applymap(heap'["display_df"])
    /\ ui' = ui \o <<"tabs", "dataframe">>
    /\ pc' = "tab2"
    /\ UNCHANGED <<file, error, filtered_ref, leagues, selected_league,
                   stats, figs, csv>>
    /\ UNCHANGED harnessVars

\* lines 184-191
Visualizations ==
    /\ pc = "tab2"
    /\ figs' = create_visualizations(heap[filtered_ref])
    /\ ui' = ui \o <<"plotly_chart", "plotly_chart", "plotly_chart">>
    /\ pc' = "tab3"
    /\ UNCHANGED <<file, error, heap, filtered_ref, leagues, selected_league,
                   stats, styled, csv>>
    /\ UNCHANGED harnessVars

\* lines 193-194
Insights ==
    /\ pc = "tab3"
    /\ heap' = add_insights(heap, filtered_ref)
    /\ ui' = ui \o <<"high_xg", "high_cards">>
    /\ pc' = "download"
    /\ UNCHANGED <<file, error, filtered_ref, leagues, selected_league,
                   stats, styled, figs, csv>>
    /\ UNCHANGED harnessVars

\* lines 197-204
Download ==
    /\ pc = "download"
    /\ csv' = to_csv(heap[filtered_ref])
    /\ ui' = ui \o <<"download_button">>
    /\ pc' = "footer"
    /\ UNCHANGED <<file, error, heap, filtered_ref, leagues, selected_league,
                   stats, styled, figs>>
    /\ UNCHANGED harnessVars

\* lines 207-208
Footer ==
    /\ pc = "footer"
    /\ ui' = ui \o <<"divider", "caption">>
    /\ pc' = "done"
    /\ UNCHANGED <<file, error, heap, filtered_ref, leagues, selected_league,
                   stats, styled, figs, csv>>
    /\ UNCHANGED harnessVars

Next ==
    \/ Title
    \/ LoadData
    \/ SelectLeague
    \/ FilterLeague
    \/ Sidebar
    \/ GetStatistics
    \/ Metrics
    \/ DataView
    \/ Visualizations
    \/ Insights
    \/ Download
    \/ Footer

Spec == Init /\ [][Next]_vars

-----------------------------------------------------------------------------
(* The filters on their own: each predicate applied to a frame, then applied *)
(* again to its own result.  add_search_filters has no caller in wsh.py, so  *)
(* this is the only place it runs.                                           *)

FilterInit ==
    /\ file = MissingFile
    /\ pc = "h_start"
    /\ error = "none"
    /\ ui = <<>>
    /\ heap = [o \in ObjIds |-> NoFrame]
    /\ filtered_ref = "data"
    /\ leagues = <<>>
    /\ selected_league = NoLeague
    /\ stats = NoStats
    /\ styled = <<>>
    /\ figs = <<>>
    /\ csv = <<>>
    /\ h_in \in {load_data(Sheet(Columns, t)) : t \in Tables}
    /\ h_pred = [kind |-> "none"]
    /\ h_once = NoFrame
    /\ h_twice = NoFrame

\* lines 138-153 on h_in
ApplyLeague ==
    /\ pc = "h_start"
    /\ \E i \in 1..Len(league_options(h_in)) :
          LET sel == league_options(h_in)[i]
          IN  /\ h_pred' = [kind |-> "league", league |-> sel]
              /\ h_once' = league_select(h_in, sel)
    /\ pc' = "h_once"
    /\ UNCHANGED <<file, error, ui, heap, filtered_ref, leagues, selected_league,
                   stats, styled, figs, csv, h_in, h_twice>>

\* lines 38-57 on h_in; with NaN slider bounds (an empty frame) the sliders
\* may also refuse to render
ApplyThresholds ==
    /\ pc = "h_start"
    /\ \/ /\ \E r \in add_search_filters(h_in) :
                /\ h_pred' = [kind |-> "thresholds", min_xg |-> r.min_xg,
                              min_bookings |-> r.min_bookings]
                /\ h_once' = r.frame
          /\ ui' = ui \o <<"filters_subheader", "slider", "slider">>
          /\ pc' = "h_once"
          /\ UNCHANGED error
       \/ /\ h_in.rows = <<>>
          /\ ui' = ui \o <<"filters_subheader">>
          /\ Crash("StreamlitAPIException")
          /\ UNCHANGED <<h_pred, h_once>>
    /\ UNCHANGED <<file, heap, filtered_ref, leagues, selected_league,
                   stats, styled, figs, csv, h_in, h_twice>>

\* the same predicate on the frame it produced
Reapply ==
    /\ pc = "h_once"
    /\ h_twice' = IF h_pred.kind = "league"
                  THEN league_select(h_once, h_pred.league)
                  ELSE threshold_filter(h_once, h_pred.min_xg, h_pred.min_bookings)
    /\ pc' = "h_done"
    /\ UNCHANGED <<file, error, ui, heap, filtered_ref, leagues, selected_league,
                   stats, styled, figs, csv, h_in, h_pred, h_once>>

FilterNext ==
    \/ ApplyLeague
    \/ ApplyThresholds
    \/ Reapply

SpecFilters == FilterInit /\ [][FilterNext]_vars

-----------------------------------------------------------------------------
(* Claims *)

\* positions of main at which get_statistics has returned
Rendered == {"metrics", "tab1", "tab2", "tab3", "download", "footer", "done"}

\* positions of main at which filtered_data is bound
Filtered == {"sidebar", "stats"} \cup Rendered

\* C1: for every filter specification (league or none, min_xg, min_bookings)
\* the view main hands to the statistics, table, charts, insights and
\* download is exactly the base rows with (league is none or row.league =
\* league) and row.match_xg >= min_xg and row.ex_bookings >= min_bookings.
C1_ViewIsFilterSpecSubsequence ==
    \A x \in MinXgVals, b \in MinBookingsVals :
        pc \in Rendered =>
            LET base == heap["data"]
                keep == [i \in 1..Len(base.rows) |->
                            /\ \/ selected_league = "All"
                               \/ base.rows[i].cells["league"] = selected_league
                            /\ base.rows[i].cells["match_xg"] >= x
                            /\ base.rows[i].cells["ex_bookings"] >= b]
            IN  heap[filtered_ref].rows = SelectRows(base.rows, keep)

\* C2: when the view passed to get_statistics has zero rows the cycle does
\* not end in the crash of the maximum-of-empty-sequence operation; it goes
\* on to render an empty table.
C2_EmptyViewDegradesGracefully ==
    (file.exists /\ file.columns = Columns /\ pc \notin {"start", "load", "leagues", "filter"}
        /\ heap[filtered_ref].rows = <<>>)
    => pc # "crashed"

\* C3: if loading fails (file missing, or one of the columns fixture,
\* match_xg, ex_bookings, ex_corners, league absent) no UI element has been
\* emitted in that cycle before the failure.
C3_LoadFailureRendersNothing ==
    (pc = "crashed" /\ (~file.exists \/ file.columns # Columns)) => ui = <<>>

\* C4: values > 5 are High, values > 3 and <= 5 are Medium, values <= 3 are
\* Low, and cells in different tiers receive different styles.
C4_TiersAreDistinguishable ==
    pc \in {"tab2", "tab3", "download", "footer", "done"} =>
        LET disp == heap["display_df"].rows
            tier(v) == IF v > 5000 THEN "High" ELSE IF v > 3000 THEN "Medium" ELSE "Low"
        IN  \A i, j \in 1..Len(disp) : \A c, d \in NumericColumns :
                tier(disp[i].cells[c]) # tier(disp[j].cells[d])
                    => styled[i][c] # styled[j][d]

\* C5: on a non-empty view highest_xg_match is the fixture of the first row,
\* in sequence order, whose match_xg is the maximum, and highest_xg_value is
\* that maximum.
C5_HighestIsFirstMaxAndItsValue ==
    pc \in Rendered =>
        LET rows == heap[filtered_ref].rows
            m == SetMax(ColValues(rows, "match_xg"))
            first == CHOOSE i \in 1..Len(rows) :
                        /\ rows[i].cells["match_xg"] = m
                        /\ \A k \in 1..(i - 1) : rows[k].cells["match_xg"] < m
        IN  /\ stats.highest_xg_match = rows[first].cells["fixture"]
            /\ stats.highest_xg_value = m

\* The part of C5 that is about the fixture alone: highest_xg_match is the
\* fixture of the first row holding the maximum match_xg.
HighestXgMatchIsFirstMax ==
    pc \in Rendered =>
        LET rows == heap[filtered_ref].rows
            m == SetMax(ColValues(rows, "match_xg"))
            first == CHOOSE i \in 1..Len(rows) :
                        /\ rows[i].cells["match_xg"] = m
                        /\ \A k \in 1..(i - 1) : rows[k].cells["match_xg"] < m
        IN  stats.highest_xg_match = rows[first].cells["fixture"]

\* C6: the stored avg_match_xg, avg_bookings, avg_corners and
\* highest_xg_value equal the exact mean / maximum of the column.
C6_StoredStatisticsAreExact ==
    pc \in Rendered =>
        LET rows == heap[filtered_ref].rows
            n == Len(rows)
        IN  /\ stats.avg_match_xg * n = SumCol(rows, "match_xg")
            /\ stats.avg_bookings * n = SumCol(rows, "ex_bookings")
            /\ stats.avg_corners * n = SumCol(rows, "ex_corners")
            /\ stats.highest_xg_value = SetMax(ColValues(rows, "match_xg"))

\* C7: on a non-empty view each reported mean lies between the minimum and
\* the maximum of its column, inclusive.
C7_MeanBetweenMinAndMax ==
    pc \in Rendered =>
        LET rows == heap[filtered_ref].rows
            within(a, c) == /\ SetMin(ColValues(rows, c)) <= a
                            /\ a <= SetMax(ColValues(rows, c))
        IN  /\ within(stats.avg_match_xg, "match_xg")
            /\ within(stats.avg_bookings, "ex_bookings")
            /\ within(stats.avg_corners, "ex_corners")

\* C8: applying the same predicate (league equality, or the two minimum
\* thresholds) to an already filtered frame returns that frame, and the
\* surviving rows are rows of the base frame in their original relative order.
C8_FilterIdempotentAndOrderPreserving ==
    /\ pc = "h_done" => h_twice = h_once
    /\ pc \in {"h_once", "h_done"} =>
          /\ h_once.columns = h_in.columns
          /\ \A i \in 1..Len(h_once.rows) :
                h_in.rows[h_once.rows[i].label + 1] = h_once.rows[i]
          /\ \A i, j \in 1..Len(h_once.rows) :
                i < j => h_once.rows[i].label < h_once.rows[j].label

\* C8's case: the thresholds kept at least two rows and dropped at least one
C8_Witness ==
    /\ pc = "h_done"
    /\ h_pred.kind = "thresholds"
    /\ Len(h_once.rows) >= 2
    /\ Len(h_once.rows) < Len(h_in.rows)

\* C9: once loaded, the base table is exactly what was read from the file,
\* whatever later steps of the cycle have run.
C9_BaseTableUnchanged ==
    (file.exists /\ pc \notin {"start", "load"}) => heap["data"] = load_data(file)

\* C9's case: a whole cycle ran on the base table itself (selection "All")
\* and the insights sort reordered rows
C9_Witness ==
    /\ pc = "done"
    /\ filtered_ref = "data"
    /\ \E i, j \in 1..Len(heap["high_xg"].rows) :
          i < j /\ heap["high_xg"].rows[i].label > heap["high_xg"].rows[j].label

=============================================================================
